---- MODULE Spec2Model ----
(***************************************************************************)
(* Asset-manager chaincode (asset-manager.go) and its REST adapter,        *)
(* modelled over a versioned key-value store: the world state holds the    *)
(* current value of each key, the history the ordered version log.         *)
(*                                                                         *)
(* A Go string is a sequence of units: a unit is one valid character or    *)
(* one byte that is not valid UTF-8 (BadByte).  A []byte value is a        *)
(* sequence holding at most one document: <<>> is nil / absent.            *)
(*                                                                         *)
(* Spec        the contract functions, one transaction after the other     *)
(* SpecApi     the same behind the handlers of the REST adapter            *)
(* SpecStored  the queries over a store written earlier, values that do    *)
(*             not decode included                                         *)
(* SpecSteps   the mutating functions of two transactions, interleaved     *)
(*             store call by store call                                    *)
(***************************************************************************)
EXTENDS Integers, Sequences, FiniteSets, TLC

\* ------------------------------------------------------------------ bounds
\* Number of write transactions the store commits in one behaviour.
MaxTx == 3

\* ------------------------------------------------------------------ strings
\* A byte that is not valid UTF-8 (0xFF), and U+FFFD, the replacement rune.
BadByte == "\\xFF"
ReplacementChar == "\\uFFFD"

\* encoding/json, string encoding: "coerced to valid UTF-8, replacing invalid
\* bytes with the Unicode replacement rune".
ToValidUTF8(s) == [i \in 1..Len(s) |-> IF s[i] = BadByte THEN ReplacementChar ELSE s[i]]

ValidUTF8(s) == \A i \in 1..Len(s) : s[i] # BadByte

\* ------------------------------------------------------------------ numbers
\* A float64: a finite value (a non-negative whole number here) or NaN.
Fin(n) == [fin |-> TRUE, val |-> n]
NaN == [fin |-> FALSE, val |-> 0]

Digits == <<"0", "1", "2", "3", "4", "5", "6", "7", "8", "9">>

DigitVal(c) == (CHOOSE i \in 1..10 : Digits[i] = c) - 1

IsDigit(c) == \E i \in 1..10 : Digits[i] = c

\* The decimal text of a finite whole number, as json.Marshal writes it.
RECURSIVE FormatFloat(_)
FormatFloat(n) ==
    IF n < 10 THEN <<Digits[n + 1]>>
    ELSE Append(FormatFloat(n \div 10), Digits[(n % 10) + 1])

RECURSIVE ParseDigits(_)
ParseDigits(s) ==
    IF Len(s) = 0 THEN 0
    ELSE 10 * ParseDigits(SubSeq(s, 1, Len(s) - 1)) + DigitVal(s[Len(s)])

\* The number literal of a JSON document to float64: [ok, f].
ParseNumber(s) ==
    IF Len(s) > 0 /\ \A i \in 1..Len(s) : IsDigit(s[i])
    THEN [ok |-> TRUE, f |-> Fin(ParseDigits(s))]
    ELSE [ok |-> FALSE, f |-> Fin(0)]

\* strconv.ParseFloat, which converts a float64 argument of a transaction
\* from its text: [ok, f].  It takes "NaN" as well as decimal text.
ParseFloat(s) ==
    IF s = <<"N", "a", "N">> THEN [ok |-> TRUE, f |-> NaN]
    ELSE ParseNumber(s)

\* ------------------------------------------------------------------ records
\* type Asset struct
Asset(dealerID, msisdn, mpin, balance, status, transAmount, transType, remarks) ==
    [DEALERID |-> dealerID, MSISDN |-> msisdn, MPIN |-> mpin, BALANCE |-> balance,
     STATUS |-> status, TRANSAMOUNT |-> transAmount, TRANSTYPE |-> transType,
     REMARKS |-> remarks]

\* The zero value of Asset.
ZeroAsset == Asset(<<>>, <<>>, <<>>, Fin(0), <<>>, Fin(0), <<>>, <<>>)

\* json.Marshal(asset): [err, bytes].  A NaN number is an UnsupportedValueError.
\* The document keeps each string coerced to valid UTF-8 and each number as
\* its decimal text.
Marshal(a) ==
    IF ~a.BALANCE.fin \/ ~a.TRANSAMOUNT.fin
    THEN [err |-> "EncodeError", bytes |-> <<>>]
    ELSE [err |-> "nil",
          bytes |-> <<[json |-> "object",
                       DEALERID |-> ToValidUTF8(a.DEALERID),
                       MSISDN |-> ToValidUTF8(a.MSISDN),
                       MPIN |-> ToValidUTF8(a.MPIN),
                       BALANCE |-> FormatFloat(a.BALANCE.val),
                       STATUS |-> ToValidUTF8(a.STATUS),
                       TRANSAMOUNT |-> FormatFloat(a.TRANSAMOUNT.val),
                       TRANSTYPE |-> ToValidUTF8(a.TRANSTYPE),
                       REMARKS |-> ToValidUTF8(a.REMARKS)]>>]

\* json.Unmarshal(bytes, &asset) into a zero Asset: [err, asset].
Unmarshal(bytes) ==
    IF Len(bytes) = 0 \/ bytes[1].json # "object"
    THEN [err |-> "DecodeError", asset |-> ZeroAsset]
    ELSE LET d == bytes[1]
             b == ParseNumber(d.BALANCE)
             t == ParseNumber(d.TRANSAMOUNT)
         IN  IF ~b.ok \/ ~t.ok
             THEN [err |-> "DecodeError", asset |-> ZeroAsset]
             ELSE [err |-> "nil",
                   asset |-> Asset(d.DEALERID, d.MSISDN, d.MPIN, b.f, d.STATUS,
                                   t.f, d.TRANSTYPE, d.REMARKS)]

\* ------------------------------------------------------------------ inputs
D1 == <<"D", "1">>
D2 == <<"D", "2">>

\* The keys of the store, in the lexical order of a range scan.
KeyOrder == <<D1, D2>>
Keys == {KeyOrder[i] : i \in 1..Len(KeyOrder)}

\* The arguments of CreateAsset / UpdateAsset after dealerID.
Fields(msisdn, mpin, balance, status, transAmount, transType, remarks) ==
    [msisdn |-> msisdn, mpin |-> mpin, balance |-> balance, status |-> status,
     transAmount |-> transAmount, transType |-> transType, remarks |-> remarks]

Msisdn1 == <<"9", "9", "9", "0", "0", "0", "1", "1", "1", "1">>
Mpin1 == <<"1", "2", "3", "4">>
Active == <<"A", "C", "T", "I", "V", "E">>

FInit == Fields(Msisdn1, Mpin1, Fin(100), Active, Fin(0),
                <<"N", "O", "N", "E">>, <<"i", "n", "i", "t">>)
FZero == Fields(<<>>, <<>>, Fin(0), <<>>, Fin(0), <<>>, <<>>)
FBadUTF8 == Fields(Msisdn1, Mpin1, Fin(100), Active, Fin(0),
                   <<"N", "O", "N", "E">>, <<"o", "k", BadByte>>)
FNaN == Fields(Msisdn1, Mpin1, NaN, Active, Fin(0),
               <<"N", "O", "N", "E">>, <<"i", "n", "i", "t">>)

FieldSets == {FInit, FZero, FBadUTF8, FNaN}

ValidFields(f) ==
    /\ ValidUTF8(f.msisdn) /\ ValidUTF8(f.mpin) /\ ValidUTF8(f.status)
    /\ ValidUTF8(f.transType) /\ ValidUTF8(f.remarks)

\* ------------------------------------------------------------------ state
VARIABLES
    state,      \* world state: key -> current value (<<>> when absent)
    history,    \* key -> version log, oldest first
    nextTx,     \* number of write transactions committed so far
    calls,      \* key -> the create / update / delete calls that returned nil
    last,       \* the latest chaincode invocation and what it returned
    http,       \* the latest response of the REST adapter
    iter,       \* the iterator of the latest invocation: opened, Close() calls
    procs       \* transaction -> its place in a call that runs in steps

vars == <<state, history, nextTx, calls, last, http, iter, procs>>

storeVars == <<state, history, nextTx>>

\* ------------------------------------------------------------------ store
\* stub.GetState(key): the committed value, nil when the key is absent.
GetState(key) == state[key]

\* The identifier of the n-th write transaction.
TxId(n) == <<"tx", n>>

\* The commit of one write to key: the world state takes the value and the
\* version log of the key gets one entry.  Commits are totally ordered; the
\* commit time of a write is its place in that order.
Commit(key, value, isDelete) ==
    /\ nextTx' = nextTx + 1
    /\ state' = [state EXCEPT ![key] = value]
    /\ history' = [history EXCEPT ![key] =
                      Append(@, [txId |-> TxId(nextTx'), timestamp |-> nextTx',
                                 value |-> value, isDelete |-> isDelete])]

\* stub.PutState(key, value)
PutState(key, value) == Commit(key, value, FALSE)

\* stub.DelState(key)
DelState(key) == Commit(key, <<>>, TRUE)

\* stub.GetStateByRange("", ""): every live key with its value, in key order.
RECURSIVE RangeFrom(_)
RangeFrom(i) ==
    IF i > Len(KeyOrder) THEN <<>>
    ELSE IF state[KeyOrder[i]] = <<>> THEN RangeFrom(i + 1)
         ELSE <<[Key |-> KeyOrder[i], Value |-> state[KeyOrder[i]]]>> \o RangeFrom(i + 1)

GetStateByRange == RangeFrom(1)

\* stub.GetHistoryForKey(key): the version stream of the key.
GetHistoryForKey(key) == history[key]

\* ------------------------------------------------------------------ results
Returned(fn, key, err, ret) ==
    [fn |-> fn, key |-> key, err |-> err, ret |-> ret]

NoCall == Returned("none", <<>>, "nil", <<>>)

\* No HTTP response: the chaincode was invoked without the REST adapter.
NoResponse == [handler |-> "none", status |-> 0, sent |-> FALSE]

\* The invocation asked the store for no iterator.
NoIterator == [opened |-> 0, closed |-> 0]

\* The transactions that may run at the same time, and one that is not running.
Txs == {1, 2}
Idle == [pc |-> "idle", fn |-> "none", key |-> <<>>, args |-> <<>>, exists |-> FALSE]

Init ==
    /\ state = [k \in Keys |-> <<>>]
    /\ history = [k \in Keys |-> <<>>]
    /\ nextTx = 0
    /\ calls = [k \in Keys |-> <<>>]
    /\ last = NoCall
    /\ http = NoResponse
    /\ iter = NoIterator
    /\ procs = [t \in Txs |-> Idle]

\* ------------------------------------------------------------------ chaincode
\* AssetExists that reports the success of the query, not the presence of a
\* value.
AssetExists_ErrIsNil(dealerID, getErr) ==
    IF getErr THEN [exists |-> FALSE, err |-> "StoreUnavailable"]
    ELSE [exists |-> TRUE, err |-> "nil"]

\* AssetExists: [exists, err].  getErr: the store's GetState call fails.
AssetExists(dealerID, getErr) ==
    IF getErr THEN [exists |-> FALSE, err |-> "StoreUnavailable"]
    ELSE [exists |-> GetState(dealerID) # <<>>, err |-> "nil"]

\* A slip in the literal: two string arguments of the same type swapped.
NewAsset_Swapped(dealerID, f) ==
    Asset(dealerID, f.mpin, f.msisdn, f.balance, f.status, f.transAmount,
          f.transType, f.remarks)

\* The Asset literal CreateAsset builds from its arguments.
NewAsset(dealerID, f) ==
    Asset(dealerID, f.msisdn, f.mpin, f.balance, f.status, f.transAmount,
          f.transType, f.remarks)

\* CreateAsset without its existence check: it writes over a live record.
CreateAsset_NoExistsCheck(dealerID, f, getErr, putErr) ==
    LET m == Marshal(NewAsset(dealerID, f))
        ret(err) == Returned("CreateAsset", dealerID, err, <<>>)
    IN  IF m.err # "nil" THEN last' = ret(m.err) /\ UNCHANGED storeVars
        ELSE IF putErr THEN last' = ret("StoreUnavailable") /\ UNCHANGED storeVars
        ELSE last' = ret("nil") /\ PutState(dealerID, m.bytes)

\* CreateAsset.  putErr: the store's PutState call fails.
CreateAsset(dealerID, f, getErr, putErr) ==
    LET e == AssetExists(dealerID, getErr)
        m == Marshal(NewAsset(dealerID, f))
        ret(err) == Returned("CreateAsset", dealerID, err, <<>>)
    IN  IF e.err # "nil" THEN last' = ret(e.err) /\ UNCHANGED storeVars
        ELSE IF e.exists THEN last' = ret("AlreadyExists") /\ UNCHANGED storeVars
        ELSE IF m.err # "nil" THEN last' = ret(m.err) /\ UNCHANGED storeVars
        ELSE IF putErr THEN last' = ret("StoreUnavailable") /\ UNCHANGED storeVars
        ELSE last' = ret("nil") /\ PutState(dealerID, m.bytes)

\* ReadAsset
ReadAsset(dealerID, getErr) ==
    LET assetJSON == GetState(dealerID)
        u == Unmarshal(assetJSON)
        ret(err, r) == Returned("ReadAsset", dealerID, err, r)
    IN  /\ UNCHANGED storeVars
        /\ IF getErr THEN last' = ret("StoreUnavailable", <<>>)
           ELSE IF assetJSON = <<>> THEN last' = ret("NotFound", <<>>)
           ELSE IF u.err # "nil" THEN last' = ret(u.err, <<>>)
           ELSE last' = ret("nil", <<u.asset>>)

\* A patching update: an argument left empty or zero keeps the stored value.
OverwritingAsset_Merge(dealerID, f) ==
    LET old == Unmarshal(GetState(dealerID)).asset
        str(new, prev) == IF new = <<>> THEN prev ELSE new
        num(new, prev) == IF new = Fin(0) THEN prev ELSE new
    IN  Asset(dealerID, str(f.msisdn, old.MSISDN), str(f.mpin, old.MPIN),
              num(f.balance, old.BALANCE), str(f.status, old.STATUS),
              num(f.transAmount, old.TRANSAMOUNT), str(f.transType, old.TRANSTYPE),
              str(f.remarks, old.REMARKS))

\* The Asset literal UpdateAsset builds from its arguments.
OverwritingAsset(dealerID, f) ==
    Asset(dealerID, f.msisdn, f.mpin, f.balance, f.status, f.transAmount,
          f.transType, f.remarks)

\* UpdateAsset without its existence check: it creates the record it misses.
UpdateAsset_Upsert(dealerID, f, getErr, putErr) ==
    LET m == Marshal(OverwritingAsset(dealerID, f))
        ret(err) == Returned("UpdateAsset", dealerID, err, <<>>)
    IN  IF m.err # "nil" THEN last' = ret(m.err) /\ UNCHANGED storeVars
        ELSE IF putErr THEN last' = ret("StoreUnavailable") /\ UNCHANGED storeVars
        ELSE last' = ret("nil") /\ PutState(dealerID, m.bytes)

\* UpdateAsset: overwrites the whole record.
UpdateAsset(dealerID, f, getErr, putErr) ==
    LET e == AssetExists(dealerID, getErr)
        m == Marshal(OverwritingAsset(dealerID, f))
        ret(err) == Returned("UpdateAsset", dealerID, err, <<>>)
    IN  IF e.err # "nil" THEN last' = ret(e.err) /\ UNCHANGED storeVars
        ELSE IF ~e.exists THEN last' = ret("NotFound") /\ UNCHANGED storeVars
        ELSE IF m.err # "nil" THEN last' = ret(m.err) /\ UNCHANGED storeVars
        ELSE IF putErr THEN last' = ret("StoreUnavailable") /\ UNCHANGED storeVars
        ELSE last' = ret("nil") /\ PutState(dealerID, m.bytes)

\* DeleteAsset without its existence check: it deletes whatever the key holds.
DeleteAsset_NoExistsCheck(dealerID, getErr, delErr) ==
    LET ret(err) == Returned("DeleteAsset", dealerID, err, <<>>)
    IN  IF delErr THEN last' = ret("StoreUnavailable") /\ UNCHANGED storeVars
        ELSE last' = ret("nil") /\ DelState(dealerID)

\* DeleteAsset that deletes first and looks afterwards whether there was a
\* record: the refused call has left a tombstone.
DeleteAsset_DeletesBeforeCheck(dealerID, getErr, delErr) ==
    LET e == AssetExists(dealerID, getErr)
        ret(err) == Returned("DeleteAsset", dealerID, err, <<>>)
    IN  IF delErr THEN last' = ret("StoreUnavailable") /\ UNCHANGED storeVars
        ELSE /\ DelState(dealerID)
             /\ last' = IF e.err # "nil" THEN ret(e.err)
                        ELSE IF ~e.exists THEN ret("NotFound")
                        ELSE ret("nil")

\* DeleteAsset that checks the key it is given and deletes a fixed one.
DeleteAsset_FixedKey(dealerID, getErr, delErr) ==
    LET e == AssetExists(dealerID, getErr)
        ret(err) == Returned("DeleteAsset", dealerID, err, <<>>)
    IN  IF e.err # "nil" THEN last' = ret(e.err) /\ UNCHANGED storeVars
        ELSE IF ~e.exists THEN last' = ret("NotFound") /\ UNCHANGED storeVars
        ELSE IF delErr THEN last' = ret("StoreUnavailable") /\ UNCHANGED storeVars
        ELSE last' = ret("nil") /\ DelState(D1)

\* A soft delete: the key keeps a record, emptied, instead of being removed
\* from the world state.
DeleteAsset_SoftDelete(dealerID, getErr, delErr) ==
    LET e == AssetExists(dealerID, getErr)
        ret(err) == Returned("DeleteAsset", dealerID, err, <<>>)
    IN  IF e.err # "nil" THEN last' = ret(e.err) /\ UNCHANGED storeVars
        ELSE IF ~e.exists THEN last' = ret("NotFound") /\ UNCHANGED storeVars
        ELSE IF delErr THEN last' = ret("StoreUnavailable") /\ UNCHANGED storeVars
        ELSE last' = ret("nil") /\ PutState(dealerID, Marshal(NewAsset(dealerID, FZero)).bytes)

\* DeleteAsset.  delErr: the store's DelState call fails.
DeleteAsset(dealerID, getErr, delErr) ==
    LET e == AssetExists(dealerID, getErr)
        ret(err) == Returned("DeleteAsset", dealerID, err, <<>>)
    IN  IF e.err # "nil" THEN last' = ret(e.err) /\ UNCHANGED storeVars
        ELSE IF ~e.exists THEN last' = ret("NotFound") /\ UNCHANGED storeVars
        ELSE IF delErr THEN last' = ret("StoreUnavailable") /\ UNCHANGED storeVars
        ELSE last' = ret("nil") /\ DelState(dealerID)

\* The loop with var asset declared outside it: every element of the slice
\* points at the one variable, which holds the record decoded last.
RECURSIVE AllAssetsLoop_Aliased(_, _, _, _)
AllAssetsLoop_Aliased(results, i, failAt, assets) ==
    IF i > Len(results) THEN [err |-> "nil", ret |-> assets]
    ELSE IF i = failAt THEN [err |-> "StoreUnavailable", ret |-> <<>>]
    ELSE LET u == Unmarshal(results[i].Value)
         IN  IF u.err # "nil" THEN [err |-> u.err, ret |-> <<>>]
             ELSE AllAssetsLoop_Aliased(results, i + 1, failAt,
                     [j \in 1..(Len(assets) + 1) |-> u.asset])

\* The loop that goes on to the next result when a value does not decode.
RECURSIVE AllAssetsLoop_SkipsMalformed(_, _, _, _)
AllAssetsLoop_SkipsMalformed(results, i, failAt, assets) ==
    IF i > Len(results) THEN [err |-> "nil", ret |-> assets]
    ELSE IF i = failAt THEN [err |-> "StoreUnavailable", ret |-> <<>>]
    ELSE LET u == Unmarshal(results[i].Value)
         IN  IF u.err # "nil"
             THEN AllAssetsLoop_SkipsMalformed(results, i + 1, failAt, assets)
             ELSE AllAssetsLoop_SkipsMalformed(results, i + 1, failAt,
                                               Append(assets, u.asset))

\* The loop of GetAllAssets over the scan results from position i, assets
\* being the slice built so far.  failAt: the position whose Next() fails
\* (0: none does).
RECURSIVE AllAssetsLoop(_, _, _, _)
AllAssetsLoop(results, i, failAt, assets) ==
    IF i > Len(results) THEN [err |-> "nil", ret |-> assets]
    ELSE IF i = failAt THEN [err |-> "StoreUnavailable", ret |-> <<>>]
    ELSE LET u == Unmarshal(results[i].Value)
         IN  IF u.err # "nil" THEN [err |-> u.err, ret |-> <<>>]
             ELSE AllAssetsLoop(results, i + 1, failAt, Append(assets, u.asset))

\* Close only where the function runs to its end: the error returns leave the
\* iterator open.
DeferredClose_AtEndOnly(opened, err) == IF err = "nil" THEN opened ELSE 0

\* defer resultsIterator.Close(): the number of Close() calls made when the
\* function returns err, opened being the number of iterators it had obtained
\* when it reached the defer statement (0: it returned before).
DeferredClose(opened, err) == opened

\* GetAllAssets.  rangeErr: the store's GetStateByRange call fails.
GetAllAssets(rangeErr, failAt) ==
    LET r == IF rangeErr THEN [err |-> "StoreUnavailable", ret |-> <<>>]
             ELSE AllAssetsLoop(GetStateByRange, 1, failAt, <<>>)
        opened == IF rangeErr THEN 0 ELSE 1
    IN  /\ UNCHANGED storeVars
        /\ last' = Returned("GetAllAssets", <<>>, r.err, r.ret)
        /\ iter' = [opened |-> opened, closed |-> DeferredClose(opened, r.err)]

\* type HistoryQueryResult struct
HistoryQueryResult(record, txId, timestamp, isDelete) ==
    [Record |-> record, TxId |-> txId, Timestamp |-> timestamp, IsDelete |-> isDelete]

\* The loop skipping every version that carries no value.
RECURSIVE HistoryLoop_SkipsTombstones(_, _, _, _, _)
HistoryLoop_SkipsTombstones(dealerID, stream, i, failAt, records) ==
    IF i > Len(stream) THEN [err |-> "nil", ret |-> records]
    ELSE IF i = failAt THEN [err |-> "StoreUnavailable", ret |-> <<>>]
    ELSE LET response == stream[i]
             u == Unmarshal(response.value)
         IN  IF Len(response.value) = 0
             THEN HistoryLoop_SkipsTombstones(dealerID, stream, i + 1, failAt, records)
             ELSE IF u.err # "nil" THEN [err |-> u.err, ret |-> <<>>]
             ELSE HistoryLoop_SkipsTombstones(dealerID, stream, i + 1, failAt,
                     Append(records,
                            HistoryQueryResult(u.asset, response.txId,
                                               response.timestamp, response.isDelete)))

\* The loop putting each record in front of the ones before it.
RECURSIVE HistoryLoop_NewestFirst(_, _, _, _, _)
HistoryLoop_NewestFirst(dealerID, stream, i, failAt, records) ==
    IF i > Len(stream) THEN [err |-> "nil", ret |-> records]
    ELSE IF i = failAt THEN [err |-> "StoreUnavailable", ret |-> <<>>]
    ELSE LET response == stream[i]
             u == IF Len(response.value) > 0 THEN Unmarshal(response.value)
                  ELSE [err |-> "nil",
                        asset |-> [ZeroAsset EXCEPT !.DEALERID = dealerID]]
         IN  IF u.err # "nil" THEN [err |-> u.err, ret |-> <<>>]
             ELSE HistoryLoop_NewestFirst(dealerID, stream, i + 1, failAt,
                     <<HistoryQueryResult(u.asset, response.txId,
                                          response.timestamp, response.isDelete)>>
                     \o records)

\* The loop whose tombstone record is the zero Asset, the key left out.
RECURSIVE HistoryLoop_EmptyPlaceholder(_, _, _, _, _)
HistoryLoop_EmptyPlaceholder(dealerID, stream, i, failAt, records) ==
    IF i > Len(stream) THEN [err |-> "nil", ret |-> records]
    ELSE IF i = failAt THEN [err |-> "StoreUnavailable", ret |-> <<>>]
    ELSE LET response == stream[i]
             u == IF Len(response.value) > 0 THEN Unmarshal(response.value)
                  ELSE [err |-> "nil", asset |-> ZeroAsset]
         IN  IF u.err # "nil" THEN [err |-> u.err, ret |-> <<>>]
             ELSE HistoryLoop_EmptyPlaceholder(dealerID, stream, i + 1, failAt,
                     Append(records,
                            HistoryQueryResult(u.asset, response.txId,
                                               response.timestamp, response.isDelete)))

\* The loop with var asset declared outside it: every Record points at the
\* one variable, which holds the record of the version read last.
RECURSIVE HistoryLoop_Aliased(_, _, _, _, _)
HistoryLoop_Aliased(dealerID, stream, i, failAt, records) ==
    IF i > Len(stream) THEN [err |-> "nil", ret |-> records]
    ELSE IF i = failAt THEN [err |-> "StoreUnavailable", ret |-> <<>>]
    ELSE LET response == stream[i]
             u == IF Len(response.value) > 0 THEN Unmarshal(response.value)
                  ELSE [err |-> "nil",
                        asset |-> [ZeroAsset EXCEPT !.DEALERID = dealerID]]
         IN  IF u.err # "nil" THEN [err |-> u.err, ret |-> <<>>]
             ELSE HistoryLoop_Aliased(dealerID, stream, i + 1, failAt,
                     Append([j \in 1..Len(records) |->
                                [records[j] EXCEPT !.Record = u.asset]],
                            HistoryQueryResult(u.asset, response.txId,
                                               response.timestamp, response.isDelete)))

\* The loop that starts its slice again at a tombstone, as if the history of
\* a key began with its latest deletion.
RECURSIVE HistoryLoop_RestartsAtTombstone(_, _, _, _, _)
HistoryLoop_RestartsAtTombstone(dealerID, stream, i, failAt, records) ==
    IF i > Len(stream) THEN [err |-> "nil", ret |-> records]
    ELSE IF i = failAt THEN [err |-> "StoreUnavailable", ret |-> <<>>]
    ELSE LET response == stream[i]
             u == IF Len(response.value) > 0 THEN Unmarshal(response.value)
                  ELSE [err |-> "nil",
                        asset |-> [ZeroAsset EXCEPT !.DEALERID = dealerID]]
         IN  IF u.err # "nil" THEN [err |-> u.err, ret |-> <<>>]
             ELSE HistoryLoop_RestartsAtTombstone(dealerID, stream, i + 1, failAt,
                     Append(IF Len(response.value) > 0 THEN records ELSE <<>>,
                            HistoryQueryResult(u.asset, response.txId,
                                               response.timestamp, response.isDelete)))

\* The loop of GetAssetHistory over the version stream from position i.
RECURSIVE HistoryLoop(_, _, _, _, _)
HistoryLoop(dealerID, stream, i, failAt, records) ==
    IF i > Len(stream) THEN [err |-> "nil", ret |-> records]
    ELSE IF i = failAt THEN [err |-> "StoreUnavailable", ret |-> <<>>]
    ELSE LET response == stream[i]
             u == IF Len(response.value) > 0 THEN Unmarshal(response.value)
                  ELSE [err |-> "nil",
                        asset |-> [ZeroAsset EXCEPT !.DEALERID = dealerID]]
         IN  IF u.err # "nil" THEN [err |-> u.err, ret |-> <<>>]
             ELSE HistoryLoop(dealerID, stream, i + 1, failAt,
                     Append(records,
                            HistoryQueryResult(u.asset, response.txId,
                                               response.timestamp, response.isDelete)))

\* GetAssetHistory.  histErr: the store's GetHistoryForKey call fails.
GetAssetHistory(dealerID, histErr, failAt) ==
    LET r == IF histErr THEN [err |-> "StoreUnavailable", ret |-> <<>>]
             ELSE HistoryLoop(dealerID, GetHistoryForKey(dealerID), 1, failAt, <<>>)
        opened == IF histErr THEN 0 ELSE 1
    IN  /\ UNCHANGED storeVars
        /\ last' = Returned("GetAssetHistory", dealerID, r.err, r.ret)
        /\ iter' = [opened |-> opened, closed |-> DeferredClose(opened, r.err)]

\* ------------------------------------------------------------------ invocations
\* A create / update / delete call with arguments args that returned nil is a
\* committed call on its key.
Issued(args) ==
    calls' = IF last'.err = "nil"
             THEN [calls EXCEPT ![last'.key] = Append(@, [fn |-> last'.fn, args |-> args])]
             ELSE calls

\* The store commits at most MaxTx writes.
WithinBound == nextTx' <= MaxTx

InvokeCreateAsset ==
    \E k \in Keys, f \in FieldSets, getErr \in BOOLEAN, putErr \in BOOLEAN :
        /\ ~(getErr /\ putErr)
        /\ CreateAsset(k, f, getErr, putErr)
        /\ WithinBound
        /\ Issued(<<f>>)
        /\ iter' = NoIterator
        /\ UNCHANGED <<http, procs>>

InvokeReadAsset ==
    \E k \in Keys, getErr \in BOOLEAN :
        /\ ReadAsset(k, getErr)
        /\ UNCHANGED calls
        /\ iter' = NoIterator
        /\ UNCHANGED <<http, procs>>

InvokeUpdateAsset ==
    \E k \in Keys, f \in FieldSets, getErr \in BOOLEAN, putErr \in BOOLEAN :
        /\ ~(getErr /\ putErr)
        /\ UpdateAsset(k, f, getErr, putErr)
        /\ WithinBound
        /\ Issued(<<f>>)
        /\ iter' = NoIterator
        /\ UNCHANGED <<http, procs>>

InvokeDeleteAsset ==
    \E k \in Keys, getErr \in BOOLEAN, delErr \in BOOLEAN :
        /\ ~(getErr /\ delErr)
        /\ DeleteAsset(k, getErr, delErr)
        /\ WithinBound
        /\ Issued(<<>>)
        /\ iter' = NoIterator
        /\ UNCHANGED <<http, procs>>

InvokeGetAllAssets ==
    \E rangeErr \in BOOLEAN, failAt \in 0..Len(KeyOrder) :
        /\ failAt <= Len(GetStateByRange)
        /\ ~(rangeErr /\ failAt > 0)
        /\ GetAllAssets(rangeErr, failAt)
        /\ UNCHANGED calls
        /\ UNCHANGED <<http, procs>>

InvokeAssetExists ==
    \E k \in Keys, getErr \in BOOLEAN :
        /\ LET e == AssetExists(k, getErr)
           IN  last' = Returned("AssetExists", k, e.err, <<e.exists>>)
        /\ UNCHANGED <<storeVars, calls>>
        /\ iter' = NoIterator
        /\ UNCHANGED <<http, procs>>

InvokeGetAssetHistory ==
    \E k \in Keys, histErr \in BOOLEAN, failAt \in 0..MaxTx :
        /\ failAt <= Len(GetHistoryForKey(k))
        /\ ~(histErr /\ failAt > 0)
        /\ GetAssetHistory(k, histErr, failAt)
        /\ UNCHANGED calls
        /\ UNCHANGED <<http, procs>>

Next ==
    \/ InvokeCreateAsset
    \/ InvokeReadAsset
    \/ InvokeUpdateAsset
    \/ InvokeDeleteAsset
    \/ InvokeGetAllAssets
    \/ InvokeAssetExists
    \/ InvokeGetAssetHistory

\* The chaincode, invoked directly.
Spec == Init /\ [][Next]_vars

\* ------------------------------------------------------------------ REST adapter
StatusOK == 200
StatusCreated == 201
StatusBadRequest == 400
StatusInternalServerError == 500

\* A response of handler: its status, and whether the handler got as far as
\* sending a transaction to the chaincode.
Response(handler, status, sent) == [handler |-> handler, status |-> status, sent |-> sent]

\* A request body: one that is no JSON, or the JSON object of an asset, every
\* field a string.
Body(dealerID, balance, transAmount, remarks) ==
    [json |-> TRUE, DEALERID |-> dealerID, MSISDN |-> Msisdn1, MPIN |-> Mpin1,
     BALANCE |-> balance, STATUS |-> Active, TRANSAMOUNT |-> transAmount,
     TRANSTYPE |-> <<"N", "O", "N", "E">>, REMARKS |-> remarks]

NotJSON == [Body(<<>>, <<>>, <<>>, <<>>) EXCEPT !.json = FALSE]

Bodies ==
    {NotJSON,
     Body(D1, <<"1", "0", "0">>, <<"0">>, <<"i", "n", "i", "t">>),
     Body(D2, <<"1", "5", "0">>, <<"5", "0">>, <<"o", "k", BadByte>>),
     Body(D2, <<"a", "b", "c">>, <<"0">>, <<>>),
     Body(D1, <<"N", "a", "N">>, <<"0">>, <<>>)}

\* CreateAssetHandler: POST /api/assets.  The JSON decoder coerces the strings
\* of the body to valid UTF-8; SubmitTransaction converts the two numbers from
\* their text before the chaincode runs, and fails if one does not convert.
CreateAssetHandler(body, getErr, putErr) ==
    LET h(status, sent) == Response("CreateAssetHandler", status, sent)
        balance == ParseFloat(body.BALANCE)
        transAmount == ParseFloat(body.TRANSAMOUNT)
        f == Fields(ToValidUTF8(body.MSISDN), ToValidUTF8(body.MPIN), balance.f,
                    ToValidUTF8(body.STATUS), transAmount.f,
                    ToValidUTF8(body.TRANSTYPE), ToValidUTF8(body.REMARKS))
    IN  IF ~body.json
        THEN /\ http' = h(StatusBadRequest, FALSE)
             /\ UNCHANGED <<storeVars, calls, last, iter, procs>>
        ELSE IF ~balance.ok \/ ~transAmount.ok
        THEN /\ http' = h(StatusInternalServerError, FALSE)
             /\ UNCHANGED <<storeVars, calls, last, iter, procs>>
        ELSE /\ CreateAsset(ToValidUTF8(body.DEALERID), f, getErr, putErr)
             /\ WithinBound
             /\ Issued(<<f>>)
             /\ iter' = NoIterator
             /\ UNCHANGED procs
             /\ http' = IF last'.err # "nil" THEN h(StatusInternalServerError, TRUE)
                        ELSE h(StatusCreated, TRUE)

\* ReadAssetHandler: GET /api/assets/{id}
ReadAssetHandler(assetID, getErr) ==
    /\ ReadAsset(assetID, getErr)
    /\ iter' = NoIterator
    /\ UNCHANGED <<calls, procs>>
    /\ http' = IF last'.err # "nil"
               THEN Response("ReadAssetHandler", StatusInternalServerError, TRUE)
               ELSE Response("ReadAssetHandler", StatusOK, TRUE)

\* GetAssetHistoryHandler: GET /api/assets/history/{id}
GetAssetHistoryHandler(assetID, histErr, failAt) ==
    /\ GetAssetHistory(assetID, histErr, failAt)
    /\ UNCHANGED <<calls, procs>>
    /\ http' = IF last'.err # "nil"
               THEN Response("GetAssetHistoryHandler", StatusInternalServerError, TRUE)
               ELSE Response("GetAssetHistoryHandler", StatusOK, TRUE)

PostAssets ==
    \E body \in Bodies, getErr \in BOOLEAN, putErr \in BOOLEAN :
        /\ ~(getErr /\ putErr)
        /\ CreateAssetHandler(body, getErr, putErr)

GetAsset ==
    \E id \in Keys, getErr \in BOOLEAN : ReadAssetHandler(id, getErr)

GetHistory ==
    \E id \in Keys, histErr \in BOOLEAN, failAt \in 0..MaxTx :
        /\ failAt <= Len(GetHistoryForKey(id))
        /\ ~(histErr /\ failAt > 0)
        /\ GetAssetHistoryHandler(id, histErr, failAt)

NextApi ==
    \/ PostAssets
    \/ GetAsset
    \/ GetHistory

\* The chaincode behind the REST adapter, which routes these three requests.
SpecApi == Init /\ [][NextApi]_vars

\* ------------------------------------------------------------------ stored logs
\* Bytes that are no JSON text, and the record of key with a BALANCE that is
\* no number: json.Unmarshal rejects both.
Garbage == <<[json |-> "invalid"]>>
BadNumber(key) ==
    <<[Marshal(NewAsset(key, FInit)).bytes[1] EXCEPT !.BALANCE = <<"a", "b", "c">>]>>

\* One committed write: the value put (empty for a delete) and the deletion
\* mark.
Write(value, isDelete) == [value |-> value, isDelete |-> isDelete]

\* The writes the log of key may hold: the records CreateAsset / UpdateAsset
\* put, a delete, and a put whose bytes were damaged outside the chaincode.
Writes(key) ==
    {Write(Marshal(NewAsset(key, FInit)).bytes, FALSE),
     Write(Marshal(NewAsset(key, FZero)).bytes, FALSE),
     Write(Garbage, FALSE),
     Write(BadNumber(key), FALSE),
     Write(<<>>, TRUE)}

\* The logs of at most n writes to key the chaincode can leave: a delete
\* follows a put, as DeleteAsset refuses an absent key.
RECURSIVE Logs(_, _)
Logs(key, n) ==
    IF n = 0 THEN {<<>>}
    ELSE LET shorter == Logs(key, n - 1)
             absent(l) == Len(l) = 0 \/ l[Len(l)].isDelete
         IN  shorter \cup
             {Append(l, w) : l \in {x \in shorter : ~absent(x)}, w \in Writes(key)} \cup
             {Append(l, w) : l \in {x \in shorter : absent(x)},
                             w \in {x \in Writes(key) : ~x.isDelete}}

\* The version stream of a log whose writes committed after the first base
\* transactions.
Stamp(log, base) ==
    [i \in 1..Len(log) |->
        [txId |-> TxId(base + i), timestamp |-> base + i,
         value |-> log[i].value, isDelete |-> log[i].isDelete]]

\* A store that holds the logs of earlier transactions, some values damaged.
InitStored ==
    \E l1 \in Logs(D1, MaxTx), l2 \in Logs(D2, MaxTx) :
        /\ Len(l1) + Len(l2) <= MaxTx
        /\ history = (D1 :> Stamp(l1, 0)) @@ (D2 :> Stamp(l2, Len(l1)))
        /\ state = [k \in Keys |->
                       IF Len(history[k]) = 0 THEN <<>>
                       ELSE history[k][Len(history[k])].value]
        /\ nextTx = Len(l1) + Len(l2)
        /\ calls = [k \in Keys |-> <<>>]
        /\ last = NoCall
        /\ http = NoResponse
        /\ iter = NoIterator
        /\ procs = [t \in Txs |-> Idle]

NextStored ==
    \/ InvokeReadAsset
    \/ InvokeGetAllAssets
    \/ InvokeAssetExists
    \/ InvokeGetAssetHistory

\* The queries of the chaincode over a store written earlier.
SpecStored == InitStored /\ [][NextStored]_vars

\* ------------------------------------------------------------------ calls in steps
\* Two transactions run CreateAsset / UpdateAsset / DeleteAsset at the same
\* time.  Each call of the store is atomic; a contract function is as many
\* steps as it makes store calls: the GetState of its existence check, then
\* its PutState / DelState.  The store does not fail here.
Mutators == {"CreateAsset", "UpdateAsset", "DeleteAsset"}

ConcFields == {FInit, FZero}

\* Transaction t enters fn(k, f) and runs its existence check.  A call the
\* check refuses returns at once; another goes on with what the check saw.
CheckExists(t) ==
    /\ procs[t].pc = "idle"
    /\ \E fn \in Mutators, k \in Keys, f \in ConcFields :
          LET e == AssetExists(k, FALSE)
              refused == IF fn = "CreateAsset" THEN e.exists ELSE ~e.exists
              err == IF fn = "CreateAsset" THEN "AlreadyExists" ELSE "NotFound"
          IN  /\ fn = "DeleteAsset" => f = FInit
              /\ IF refused
                 THEN last' = Returned(fn, k, err, <<>>) /\ UNCHANGED procs
                 ELSE /\ procs' = [procs EXCEPT ![t] =
                                      [pc |-> "checked", fn |-> fn, key |-> k,
                                       args |-> IF fn = "DeleteAsset" THEN <<>> ELSE <<f>>,
                                       exists |-> e.exists]]
                      /\ UNCHANGED last
    /\ iter' = NoIterator
    /\ UNCHANGED <<storeVars, calls, http>>

\* The statements of a contract function after its existence check let it
\* pass: the record is encoded and put, or the key deleted.
WriteAfterCheck(fn, dealerID, args) ==
    LET ret(err) == Returned(fn, dealerID, err, <<>>)
        asset == IF fn = "CreateAsset" THEN NewAsset(dealerID, args[1])
                 ELSE OverwritingAsset(dealerID, args[1])
    IN  IF fn = "DeleteAsset" THEN last' = ret("nil") /\ DelState(dealerID)
        ELSE IF Marshal(asset).err # "nil"
        THEN last' = ret(Marshal(asset).err) /\ UNCHANGED storeVars
        ELSE last' = ret("nil") /\ PutState(dealerID, Marshal(asset).bytes)

\* Transaction t, past its existence check, writes and returns.
Act(t) ==
    /\ procs[t].pc = "checked"
    /\ WriteAfterCheck(procs[t].fn, procs[t].key, procs[t].args)
    /\ WithinBound
    /\ Issued(procs[t].args)
    /\ procs' = [procs EXCEPT ![t] = Idle]
    /\ iter' = NoIterator
    /\ UNCHANGED http

NextSteps ==
    \/ \E t \in Txs : CheckExists(t)
    \/ \E t \in Txs : Act(t)

\* The mutating calls of two transactions, interleaved store call by store
\* call.
SpecSteps == Init /\ [][NextSteps]_vars

\* ------------------------------------------------------------------ properties
\* The record a caller passes as key k and fields f.
Input(k, f) ==
    Asset(k, f.msisdn, f.mpin, f.balance, f.status, f.transAmount, f.transType,
          f.remarks)

\* The record with every byte that is not valid UTF-8 replaced by U+FFFD.
Coerced(a) ==
    [a EXCEPT !.DEALERID = ToValidUTF8(@), !.MSISDN = ToValidUTF8(@),
              !.MPIN = ToValidUTF8(@), !.STATUS = ToValidUTF8(@),
              !.TRANSTYPE = ToValidUTF8(@), !.REMARKS = ToValidUTF8(@)]

\* The latest committed create / update / delete call on k is a call of fn.
LastCallIs(k, fn) == Len(calls[k]) > 0 /\ calls[k][Len(calls[k])].fn = fn

\* The fields of the latest committed create / update call on k.
LastFields(k) == calls[k][Len(calls[k])].args[1]

\* The latest invocation is a call of fn that the store did not fail.
Answered(fn) == last.fn = fn /\ last.err # "StoreUnavailable"

\* C1 as stated: a read that follows a successful create(k, f), with no write
\* to k in between, succeeds and returns dealerId k and f field for field,
\* for every field set f.
C1_ReadReturnsInput ==
    (Answered("ReadAsset") /\ LastCallIs(last.key, "CreateAsset"))
        => /\ last.err = "nil"
           /\ last.ret = <<Input(last.key, LastFields(last.key))>>

\* C1 amended: a read that follows a successful create(k, f), with no write to
\* k in between, succeeds (unless the store call itself fails) and returns
\* dealerId k and f field for field with every byte that is not valid UTF-8
\* replaced by U+FFFD; so it returns exactly k and f when their strings are
\* valid UTF-8.
C1_ReadReturnsCoercedInput ==
    (Answered("ReadAsset") /\ LastCallIs(last.key, "CreateAsset"))
        => /\ last.err = "nil"
           /\ last.ret = <<Coerced(Input(last.key, LastFields(last.key)))>>
           /\ (ValidUTF8(last.key) /\ ValidFields(LastFields(last.key)))
                 => last.ret = <<Input(last.key, LastFields(last.key))>>

C1_Witness ==
    /\ Answered("ReadAsset") /\ LastCallIs(last.key, "CreateAsset")
    /\ LastFields(last.key) = FInit
    /\ last.ret = <<Input(last.key, FInit)>>

\* C2: a create on a key that exists fails with AlreadyExists (StoreUnavailable
\* if the existence check itself fails), and leaves the value stored at the
\* key and the version history of the key as they were.
C2_CreateOnExistingFails ==
    [][(last'.fn = "CreateAsset" /\ GetState(last'.key) # <<>>)
          => /\ last'.err # "StoreUnavailable" => last'.err = "AlreadyExists"
             /\ last'.err # "nil"
             /\ state'[last'.key] = state[last'.key]
             /\ history'[last'.key] = history[last'.key]]_vars

C2_Witness ==
    /\ last.fn = "CreateAsset" /\ last.err = "AlreadyExists"
    /\ GetState(last.key) # <<>>
    /\ Len(history[last.key]) = 1

\* C3: an update on a key that does not exist fails with NotFound
\* (StoreUnavailable if the existence check itself fails) and creates no
\* record: the key still does not exist and its history gets no version.
C3_UpdateOnAbsentFails ==
    [][(last'.fn = "UpdateAsset" /\ GetState(last'.key) = <<>>)
          => /\ last'.err # "StoreUnavailable" => last'.err = "NotFound"
             /\ last'.err # "nil"
             /\ state'[last'.key] = <<>>
             /\ history'[last'.key] = history[last'.key]]_vars

C3_Witness ==
    /\ last.fn = "UpdateAsset" /\ last.err = "NotFound"
    /\ GetState(last.key) = <<>>
    /\ history[last.key] = <<>>

\* C4: a delete on a key that does not exist, never created or already
\* deleted, fails with NotFound (StoreUnavailable if the existence check
\* itself fails), issues no delete against the store and appends no tombstone.
C4_DeleteOnAbsentFails ==
    [][(last'.fn = "DeleteAsset" /\ GetState(last'.key) = <<>>)
          => /\ last'.err # "StoreUnavailable" => last'.err = "NotFound"
             /\ last'.err # "nil"
             /\ nextTx' = nextTx
             /\ state' = state
             /\ history' = history]_vars

\* A delete of a key that was deleted before is refused.
C4_Witness ==
    /\ last.fn = "DeleteAsset" /\ last.err = "NotFound"
    /\ LastCallIs(last.key, "DeleteAsset")
    /\ Len(history[last.key]) = 2

\* What GetAssetHistory(k) returns when the store does not fail.
HistoryOf(k) == HistoryLoop(k, GetHistoryForKey(k), 1, 0, <<>>).ret

\* The record of a tombstone: the key and nothing else.
Placeholder(k) == [ZeroAsset EXCEPT !.DEALERID = k]

\* C5: after a successful delete(k) and before any later create(k), exists(k)
\* returns false, read(k) fails with NotFound, and historyOf(k) returns the
\* versions it returned before the delete, unchanged and in the same order,
\* followed by one final entry with isDelete = true.
C5_AfterDelete ==
    /\ [](\A k \in Keys : LastCallIs(k, "DeleteAsset") =>
            /\ ~AssetExists(k, FALSE).exists
            /\ (Answered("AssetExists") /\ last.key = k)
                  => last.err = "nil" /\ last.ret = <<FALSE>>
            /\ (Answered("ReadAsset") /\ last.key = k)
                  => last.err = "NotFound" /\ last.ret = <<>>
            /\ (Answered("GetAssetHistory") /\ last.key = k)
                  => /\ last.err = "nil"
                     /\ last.ret = HistoryOf(k)
                     /\ Len(last.ret) = Len(calls[k])
                     /\ last.ret[Len(last.ret)].IsDelete
                     /\ \A i \in 1..(Len(last.ret) - 1) :
                            (calls[k][i].fn # "DeleteAsset") => ~last.ret[i].IsDelete)
    /\ [][\A k \in Keys :
            (last'.fn = "DeleteAsset" /\ last'.key = k /\ last'.err = "nil")
               => /\ Len(HistoryOf(k)') = Len(HistoryOf(k)) + 1
                  /\ SubSeq(HistoryOf(k)', 1, Len(HistoryOf(k))) = HistoryOf(k)
                  /\ HistoryOf(k)'[Len(HistoryOf(k)')].IsDelete]_vars
    /\ [][\A k \in Keys :
            (LastCallIs(k, "DeleteAsset") /\ LastCallIs(k, "DeleteAsset")')
               => (history'[k] = history[k] \/ HistoryOf(k)' = HistoryOf(k))]_vars

\* The history of a key created, updated and then deleted, read back.
C5_Witness ==
    /\ Answered("GetAssetHistory") /\ LastCallIs(last.key, "DeleteAsset")
    /\ Len(last.ret) = 3
    /\ ~last.ret[1].IsDelete /\ ~last.ret[2].IsDelete /\ last.ret[3].IsDelete
    /\ GetState(last.key) = <<>>

\* The history entries ret of key k match, in order, the committed calls on
\* k: a snapshot Snapshot(k, f) for a create or update with fields f, a
\* tombstone for a delete; no entry is missing or duplicated and the
\* timestamps do not decrease.
MatchesCalls(k, ret, Snapshot(_, _)) ==
    /\ Len(ret) = Len(calls[k])
    /\ \A i \in 1..Len(ret) :
          IF calls[k][i].fn = "DeleteAsset"
          THEN ret[i].IsDelete /\ ret[i].Record = Placeholder(k)
          ELSE ~ret[i].IsDelete /\ ret[i].Record = Snapshot(k, calls[k][i].args[1])
    /\ \A i, j \in 1..Len(ret) :
          i < j => ret[i].Timestamp <= ret[j].Timestamp /\ ret[i].TxId # ret[j].TxId

CoercedInput(k, f) == Coerced(Input(k, f))

\* C6 as stated: the entries of historyOf(k) are non-decreasing in timestamp
\* and match exactly, in order, the calls that committed a write to k, each
\* snapshot carrying the fields of its call.
C6_HistoryMatchesCalls ==
    (Answered("GetAssetHistory") /\ last.err = "nil")
        => MatchesCalls(last.key, last.ret, Input)

\* C6 amended: the same, each snapshot carrying the fields of its call with
\* every byte that is not valid UTF-8 replaced by U+FFFD (so the fields
\* themselves when they are valid UTF-8).
C6_HistoryMatchesCoercedCalls ==
    Answered("GetAssetHistory")
        => /\ last.err = "nil"
           /\ MatchesCalls(last.key, last.ret, CoercedInput)
           /\ \A i \in 1..Len(last.ret) :
                 (calls[last.key][i].fn # "DeleteAsset"
                    /\ ValidFields(calls[last.key][i].args[1]))
                 => last.ret[i].Record = Input(last.key, calls[last.key][i].args[1])

\* create(100), update(0), delete read back as three entries.
C6_Witness ==
    /\ Answered("GetAssetHistory") /\ last.err = "nil"
    /\ Len(last.ret) = 3
    /\ last.ret[1].Record = Input(last.key, FInit)
    /\ last.ret[2].Record = Input(last.key, FZero)
    /\ last.ret[3].IsDelete

\* The keys whose latest committed call is a create or an update.
LiveKeys == {k \in Keys : Len(calls[k]) > 0 /\ ~LastCallIs(k, "DeleteAsset")}

\* ret holds one record per live key, Snapshot of its latest fields, and no
\* other record.
ListsLive(ret, Snapshot(_, _)) ==
    /\ Len(ret) = Cardinality(LiveKeys)
    /\ \A k \in LiveKeys : \E i \in 1..Len(ret) : ret[i] = Snapshot(k, LastFields(k))

\* C7 as stated: listAll returns exactly the records of the live keys, each
\* equal field for field to the input of the call that wrote it, and none for
\* a deleted key; N creates on N keys of an empty store give N records.
C7_ListAllReturnsInputs ==
    (Answered("GetAllAssets") /\ last.err = "nil") => ListsLive(last.ret, Input)

\* C7 amended: the same, each record equal to its input with every byte that
\* is not valid UTF-8 replaced by U+FFFD (so the input itself when its
\* strings are valid UTF-8).
C7_ListAllReturnsCoercedInputs ==
    Answered("GetAllAssets")
        => /\ last.err = "nil"
           /\ ListsLive(last.ret, CoercedInput)
           /\ (\A k \in LiveKeys : ValidFields(LastFields(k)))
                 => ListsLive(last.ret, Input)

\* Two creates on two keys of the empty store, listed.
C7_Witness ==
    /\ Answered("GetAllAssets") /\ last.err = "nil"
    /\ \A k \in Keys : Len(calls[k]) = 1
    /\ last.ret = <<Input(D1, FInit), Input(D2, FZero)>>

\* C8: exists(k) is true if and only if the latest committed write to k is a
\* put, from a create or an update, and not a delete; it is false for a key
\* never written.
C8_ExistsIffPutLast ==
    /\ \A k \in Keys :
          AssetExists(k, FALSE).exists
             <=> (LastCallIs(k, "CreateAsset") \/ LastCallIs(k, "UpdateAsset"))
    /\ \A k \in Keys :
          AssetExists(k, FALSE).exists
             <=> (Len(history[k]) > 0 /\ ~history[k][Len(history[k])].isDelete)
    /\ Answered("AssetExists")
          => /\ last.err = "nil"
             /\ last.ret = <<LastCallIs(last.key, "CreateAsset")
                              \/ LastCallIs(last.key, "UpdateAsset")>>

\* exists answers false for a key that was created and then deleted.
C8_Witness ==
    /\ Answered("AssetExists") /\ last.ret = <<FALSE>>
    /\ LastCallIs(last.key, "DeleteAsset")

ClientError(status) == status \in 400..499
ServerError(status) == status \in 500..599

\* C9: the REST adapter answers a create refused with AlreadyExists with a
\* client error and a create that fails on the store with a server error, and
\* a read refused with NotFound with a client error.
C9_ErrorClasses ==
    /\ (http.handler = "CreateAssetHandler" /\ http.sent /\ last.err = "AlreadyExists")
          => ClientError(http.status)
    /\ (http.handler = "CreateAssetHandler" /\ http.sent /\ last.err = "StoreUnavailable")
          => ServerError(http.status)
    /\ (http.handler = "ReadAssetHandler" /\ last.err = "NotFound")
          => ClientError(http.status)

\* C10 as stated: a read that follows a successful update(k, f), with no
\* write to k in between, returns dealerId k and f field for field, whatever
\* the record held before, empty and zero values of f included.
C10_UpdateOverwrites ==
    (Answered("ReadAsset") /\ LastCallIs(last.key, "UpdateAsset"))
        => /\ last.err = "nil"
           /\ last.ret = <<Input(last.key, LastFields(last.key))>>

\* C10 amended: the same, f returned with every byte that is not valid UTF-8
\* replaced by U+FFFD (so f itself when its strings are valid UTF-8).
C10_UpdateOverwritesCoerced ==
    (Answered("ReadAsset") /\ LastCallIs(last.key, "UpdateAsset"))
        => /\ last.err = "nil"
           /\ last.ret = <<Coerced(Input(last.key, LastFields(last.key)))>>
           /\ ValidFields(LastFields(last.key))
                 => last.ret = <<Input(last.key, LastFields(last.key))>>

\* A record created with every field set, updated with empty and zero
\* values, reads back empty and zero.
C10_Witness ==
    /\ Answered("ReadAsset") /\ LastCallIs(last.key, "UpdateAsset")
    /\ Len(calls[last.key]) = 2
    /\ calls[last.key][1].args = <<FInit>>
    /\ calls[last.key][2].args = <<FZero>>
    /\ last.ret = <<Input(last.key, FZero)>>

\* The version has a value json.Unmarshal accepts, or none.
Decodes(version) == Len(version.value) = 0 \/ Unmarshal(version.value).err = "nil"

\* The record historyOf(k) is to emit for a version.
SnapshotOf(k, version) ==
    IF version.isDelete THEN Placeholder(k) ELSE Unmarshal(version.value).asset

C12_EntriesAsDelivered ==
    LET stream == GetHistoryForKey(last.key)
    IN  (Answered("GetAssetHistory") /\ \A i \in 1..Len(stream) : Decodes(stream[i]))
            => /\ last.err = "nil"
               /\ Len(last.ret) = Len(stream)
               /\ \A i \in 1..Len(stream) :
                     /\ last.ret[i].TxId = stream[i].txId
                     /\ last.ret[i].Timestamp = stream[i].timestamp
                     /\ last.ret[i].IsDelete = stream[i].isDelete
                     /\ last.ret[i].Record = SnapshotOf(last.key, stream[i])

\* Three versions with three different records, returned as delivered.
C12_Witness ==
    /\ Answered("GetAssetHistory") /\ last.err = "nil"
    /\ Len(last.ret) = 3
    /\ last.ret[1].Record = Input(last.key, FZero)
    /\ last.ret[2].Record = Input(last.key, FInit)
    /\ last.ret[3].Record = Placeholder(last.key)
    /\ last.ret[1].Timestamp < last.ret[2].Timestamp
    /\ last.ret[2].Timestamp < last.ret[3].Timestamp

IsPrefix(s, t) == Len(s) <= Len(t) /\ SubSeq(t, 1, Len(s)) = s

\* The entries are in strict order of commit time.
StrictlyOrdered(ret) ==
    \A i, j \in 1..Len(ret) : i < j => ret[i].Timestamp < ret[j].Timestamp

\* C13: the history of a key is append-only and strictly ordered.  A
\* historyOf(k) call returns the history of k as it stands; every operation
\* leaves the history of every key as it was or longer, what was there being a
\* prefix of what is there afterwards, so the result of an earlier call is a
\* prefix of the result of any later call; and the entries of a result are
\* strictly ordered by commit time.
C13_AppendOnly ==
    /\ [](\A k \in Keys : StrictlyOrdered(HistoryOf(k)))
    /\ [](Answered("GetAssetHistory")
             => /\ last.err = "nil"
                /\ last.ret = HistoryOf(last.key)
                /\ StrictlyOrdered(last.ret))
    /\ [][\A k \in Keys :
            history'[k] = history[k] \/ IsPrefix(HistoryOf(k), HistoryOf(k)')]_vars

\* The history of a key created, deleted and created again: the entries
\* returned before the second create are still its first two.
C13_Witness ==
    /\ Answered("GetAssetHistory") /\ last.err = "nil"
    /\ Len(last.ret) = 3
    /\ ~last.ret[1].IsDelete /\ last.ret[2].IsDelete /\ ~last.ret[3].IsDelete
    /\ last.ret[1].Timestamp < last.ret[2].Timestamp
    /\ last.ret[2].Timestamp < last.ret[3].Timestamp

\* C14: every scan handle listAll opens and every version stream historyOf
\* opens is released exactly once on every exit path of the call, normal
\* completion, an iteration error from the store and a decode failure: a call
\* that obtained an iterator has closed it once when it returns, and a call
\* that obtained none (the store refused to open it) closes nothing.
C14_ReleasedExactlyOnce ==
    /\ iter.opened \in {0, 1}
    /\ iter.closed = iter.opened
    /\ last.fn \in {"GetAllAssets", "GetAssetHistory"}
          => /\ last.err \in {"nil", "DecodeError"} => iter.opened = 1
             /\ iter.opened = 0 => last.err = "StoreUnavailable"
    /\ last.fn \notin {"GetAllAssets", "GetAssetHistory"} => iter.opened = 0

\* listAll stopped by a value that does not decode, its scan handle closed.
C14_Witness ==
    /\ last.fn = "GetAllAssets" /\ last.err = "DecodeError"
    /\ iter.opened = 1 /\ iter.closed = 1

\* C15: no create, update or delete partially applies.  A call on k that
\* returns a failure of any kind (AlreadyExists, NotFound, an encoding error,
\* StoreUnavailable from the existence check or from the put / delete) has
\* committed nothing: the value and the history of k, and of every other key,
\* are what they were before the call, and the committed calls are the same.
C15_FailureLeavesStore ==
    [][(last'.fn \in Mutators /\ last'.err # "nil")
          => /\ state' = state
             /\ history' = history
             /\ nextTx' = nextTx
             /\ calls' = calls]_vars

\* An update of a live record refused by the store, the record as it was.
C15_Witness ==
    /\ last.fn = "UpdateAsset" /\ last.err = "StoreUnavailable"
    /\ LastCallIs(last.key, "CreateAsset")
    /\ Len(history[last.key]) = 1
    /\ GetState(last.key) = history[last.key][1].value

\* A live key holds a value that does not decode.
ScanHasMalformed ==
    \E i \in 1..Len(GetStateByRange) : Unmarshal(GetStateByRange[i].Value).err # "nil"

\* A version of k holds a value that is not empty and does not decode.
StreamHasMalformed(k) ==
    \E i \in 1..Len(GetHistoryForKey(k)) : ~Decodes(GetHistoryForKey(k)[i])

\* C16: a malformed stored value is never skipped or silently recovered.  If
\* a value in the scanned key space does not decode, listAll fails with
\* DecodeError and returns no record, neither those decoded before it nor
\* those after it; if a non-empty version value of k does not decode,
\* historyOf(k) fails with DecodeError and returns no entry (in both cases
\* unless the store fails the iteration first); and when the stream cannot be
\* opened or the iteration fails, historyOf(k) fails with StoreUnavailable and
\* returns no entry.
C16_MalformedAborts ==
    /\ (Answered("GetAllAssets") /\ ScanHasMalformed)
          => last.err = "DecodeError" /\ last.ret = <<>>
    /\ (Answered("GetAssetHistory") /\ StreamHasMalformed(last.key))
          => last.err = "DecodeError" /\ last.ret = <<>>
    /\ (last.fn \in {"GetAllAssets", "GetAssetHistory"} /\ last.err # "nil")
          => last.ret = <<>>
    /\ (last.fn = "GetAssetHistory" /\ iter.opened = 0)
          => last.err = "StoreUnavailable" /\ last.ret = <<>>
    /\ (last.fn \in {"GetAllAssets", "GetAssetHistory"} /\ last.err = "DecodeError")
          => IF last.fn = "GetAllAssets" THEN ScanHasMalformed
             ELSE StreamHasMalformed(last.key)

\* listAll over two live keys, the first sound and the second malformed:
\* DecodeError and no record.
C16_Witness ==
    /\ last.fn = "GetAllAssets" /\ last.err = "DecodeError" /\ last.ret = <<>>
    /\ Unmarshal(GetState(D1)).err = "nil"
    /\ GetState(D2) = BadNumber(D2)

\* C17: every successful create, update or delete on k is a single write to
\* k only.  It appends exactly one version to the history of k, the earlier
\* versions staying as they were, and the current value of k becomes the
\* value of that version: a record after a create or an update (which writes
\* the record even when it equals the one stored), nothing after a delete; a
\* create and a delete leave k with another value than before.  The value and
\* the history of every other key are unchanged.  exists, read, listAll and
\* historyOf leave the value and the history of every key unchanged.
C17_SingleWrite ==
    /\ [][(last'.fn \in Mutators /\ last'.err = "nil")
             => LET k == last'.key
                    n == Len(history[k])
                IN  /\ Len(history'[k]) = n + 1
                    /\ SubSeq(history'[k], 1, n) = history[k]
                    /\ state'[k] = history'[k][n + 1].value
                    /\ history'[k][n + 1].isDelete = (last'.fn = "DeleteAsset")
                    /\ (state'[k] = <<>>) = (last'.fn = "DeleteAsset")
                    /\ last'.fn \in {"CreateAsset", "DeleteAsset"} => state'[k] # state[k]
                    /\ nextTx' = nextTx + 1
                    /\ \A j \in Keys \ {k} :
                          state'[j] = state[j] /\ history'[j] = history[j]]_vars
    /\ [][(last'.fn \notin Mutators)
             => state' = state /\ history' = history /\ nextTx' = nextTx]_vars

\* A delete of D2 while D1 is live: D1 keeps its value and its one version.
C17_Witness ==
    /\ last.fn = "DeleteAsset" /\ last.err = "nil" /\ last.key = D2
    /\ GetState(D2) = <<>>
    /\ Len(history[D2]) = 2
    /\ GetState(D1) # <<>>
    /\ Len(history[D1]) = 1

\* C18: key uniqueness holds under interleaving.  When two create(k, ...)
\* calls on the same absent key run at the same time, each store call atomic
\* and the existence check and the put of a create two separate steps, at
\* most one of them succeeds and the record it wrote is not overwritten by the
\* other: a create commits only as the first write to k or right after a
\* delete of k.
C18_KeyUniqueness ==
    \A k \in Keys : \A i \in 1..Len(calls[k]) :
        calls[k][i].fn = "CreateAsset"
            => (i = 1 \/ calls[k][i - 1].fn = "DeleteAsset")

\* C19: a deleted record is never resurrected by an update.  When
\* update(k, ...) runs at the same time as delete(k) on a live key, each store
\* call atomic and the existence check and the write of a call separate
\* steps, the update puts no value for k after the delete has committed: a key
\* whose latest committed write is a delete does not exist, and a tombstone in
\* the history of k is followed by nothing or by the snapshot of a create.
C19_NoResurrection ==
    \A k \in Keys :
        /\ Len(history[k]) = Len(calls[k])
        /\ \A i \in 1..Len(history[k]) :
              history[k][i].isDelete
                  => /\ i = Len(history[k]) => ~AssetExists(k, FALSE).exists
                     /\ i < Len(history[k]) => calls[k][i + 1].fn = "CreateAsset"

\* The latest committed calls on k are a delete and then a create.
Recreated(k) ==
    /\ Len(calls[k]) >= 2
    /\ calls[k][Len(calls[k])].fn = "CreateAsset"
    /\ calls[k][Len(calls[k]) - 1].fn = "DeleteAsset"

\* A create of fn on a key whose latest committed call is a delete, the store
\* answering.
CreatesAfterDelete ==
    /\ last'.fn = "CreateAsset"
    /\ LastCallIs(last'.key, "DeleteAsset")
    /\ last'.err # "StoreUnavailable"

\* What read(k) and historyOf(k) return once k is created again with fields
\* f: the record Snapshot(k, f), and the pre-deletion versions, the
\* tombstone and the snapshot of the new create, in that order.
AfterRecreate(Snapshot(_, _)) ==
    /\ (Answered("ReadAsset") /\ Recreated(last.key))
          => /\ last.err = "nil"
             /\ last.ret = <<Snapshot(last.key, LastFields(last.key))>>
    /\ (Answered("GetAssetHistory") /\ Recreated(last.key))
          => /\ last.err = "nil"
             /\ MatchesCalls(last.key, last.ret, Snapshot)
             /\ last.ret[Len(last.ret) - 1].IsDelete
             /\ last.ret[Len(last.ret)].Record = Snapshot(last.key, LastFields(last.key))

\* C20 as stated: after a successful delete(k), create(k, f) succeeds, a
\* following read(k) returns exactly f, and historyOf(k) returns the
\* pre-deletion versions, the tombstone and the new create snapshot, in that
\* order.
C20_RecreateReturnsInput ==
    /\ [][CreatesAfterDelete => last'.err = "nil"]_vars
    /\ []AfterRecreate(Input)

\* C20 amended: after a successful delete(k), create(k, f) does not fail with
\* AlreadyExists: it succeeds and commits one version unless f holds a number
\* that cannot be encoded (NaN), which leaves k deleted.  A following read(k)
\* returns f with every byte that is not valid UTF-8 replaced by U+FFFD (f
\* itself when its strings are valid UTF-8) and no field of the pre-deletion
\* record, and historyOf(k) returns the pre-deletion versions, the tombstone
\* and the new create snapshot, in that order.
C20_RecreateReturnsCoercedInput ==
    /\ [][CreatesAfterDelete
             => /\ last'.err \in {"nil", "EncodeError"}
                /\ last'.err = "nil"
                      => /\ Len(calls'[last'.key]) = Len(calls[last'.key]) + 1
                         /\ calls'[last'.key][Len(calls'[last'.key])].fn = "CreateAsset"
                         /\ Len(history'[last'.key]) = Len(history[last'.key]) + 1
                         /\ state'[last'.key] =
                               Marshal(NewAsset(last'.key,
                                   calls'[last'.key][Len(calls'[last'.key])].args[1])).bytes
                /\ last'.err = "EncodeError"
                      => state'[last'.key] = <<>> /\ history' = history]_vars
    /\ []AfterRecreate(CoercedInput)
    /\ []((Answered("ReadAsset") /\ Recreated(last.key)
             /\ ValidFields(LastFields(last.key)))
            => last.ret = <<Input(last.key, LastFields(last.key))>>)

\* A record created with every field set, deleted, created again with empty
\* and zero fields, reads back empty and zero.
C20_Witness ==
    /\ Answered("ReadAsset") /\ Recreated(last.key)
    /\ Len(calls[last.key]) = 3
    /\ calls[last.key][1].args = <<FInit>>
    /\ calls[last.key][3].args = <<FZero>>
    /\ last.ret = <<Input(last.key, FZero)>>
====
